---- MODULE Spec2Model ----
(***************************************************************************)
(* A model of the timetable program (lispandfound/timetable).              *)
(*                                                                         *)
(* timetable/timetable.py : intervals, Location, Activity, activities_on   *)
(* timetable/main.py      : cli (cache load, fetch, selection, cache       *)
(*                          write), render_day, show_next                  *)
(*                                                                         *)
(* Conventions.  A date is the number of days since 2018-01-01 (a Monday), *)
(* so date % 7 is datetime.weekday().  A time of day is a number of        *)
(* minutes since midnight.  A datetime is [date, time].  A Python value    *)
(* that may be None is a sequence of length 0 (None) or 1.  A Python tuple *)
(* or list is a sequence.  A day/month text ("2 Apr", "2/4") before it is  *)
(* parsed is the pair <<day, month>>.                                      *)
(***************************************************************************)
EXTENDS Integers, Sequences, FiniteSets, TLC

VARIABLES
    \* -- date_in_intervals over parsed week intervals (timetable.py)
    interval_strings,   \* the Weeks cell, split on newlines: texts to parse
    in_year,            \* the year the texts are read in
    intervals,          \* the parsed list of intervals
    date,               \* the date queried
    in_intervals,       \* what date_in_intervals returned (<<>> before)
    pcI,
    \* -- Activity.location_valid_for (timetable.py)
    location_strings,   \* the Location cell, split on newlines
    locations,          \* Activity.locations, parsed
    loc_date,           \* the datetime queried
    valid_location,     \* what location_valid_for returned: <<"unset">>, <<>> (None) or <<loc>>
    pcL,
    \* -- activities_on(courses, date, selected_activities) (timetable.py)
    courses,            \* list of Course
    selected_activities,\* (course title, activity name) -> chosen primary id
    on_date,            \* the datetime queried
    taken,              \* history: the (course, activity) pairs that pass the selection test
    relevant,           \* what activities_on returned
    pcS,
    \* -- cli (main.py): one run after the other over the config and the cache
    config,             \* the parsed config file: [courses, allocated]
    data_json,          \* the cache file: <<>> (no file) or <<list of saved objects>>
    cli_courses,        \* the courses dict of cli, in insertion order: <<key, course>>
    cli_activities,     \* the activities defaultdict of cli: day name -> list
    course_i,           \* position of `for course in courses.values()`
    fetch_log,          \* history: the keys of the courses fetch_details was called on in this run
    pcR,
    \* -- the commands show and next (main.py) over ctx.obj['activities']
    ctx_activities,     \* ctx.obj['activities']: day name -> list of (a, section_name, course)
    today,              \* the datetime of `next` (--at, or now)
    show_time,          \* the flag --show-time
    shown,              \* what show_timetable laid out: <<>> before, else <<result>>
    next_classes,       \* the next_classes list of show_next
    printed,            \* the lines show_next printed
    pcG

varsI == <<interval_strings, in_year, intervals, date, in_intervals, pcI>>
varsL == <<location_strings, locations, loc_date, valid_location, pcL>>
varsS == <<courses, selected_activities, on_date, taken, relevant, pcS>>
varsR == <<config, data_json, cli_courses, cli_activities, course_i, fetch_log, pcR>>
varsG == <<ctx_activities, today, show_time, shown, next_classes, printed, pcG>>
vars == <<varsI, varsL, varsS, varsR, varsG>>

(***************************************************************************)
(* Bounds of the model.                                                    *)
(***************************************************************************)
MaxIntervals == 2      \* intervals in one list
MaxLocations == 2      \* locations of one activity
MaxActivities == 2     \* rows of one course page
MaxEntries == 3        \* resolved activities handed to show and next

(***************************************************************************)
(* Generic helpers.                                                        *)
(***************************************************************************)
SeqsUpTo(S, n) == UNION {[1..k -> S] : k \in 0..n}

Range(s) == {s[i] : i \in DOMAIN s}

(***************************************************************************)
(* Dates.                                                                  *)
(***************************************************************************)
\* days of a (non leap) year before the first of month m
DaysBefore(m) ==
    CASE m = 1 -> 0   [] m = 2 -> 31  [] m = 3 -> 59  [] m = 4 -> 90
      [] m = 5 -> 120 [] m = 6 -> 151 [] m = 7 -> 181 [] m = 8 -> 212
      [] m = 9 -> 243 [] m = 10 -> 273 [] m = 11 -> 304 [] m = 12 -> 334

\* datetime.strptime(text, '%d %b' or '%d/%m').replace(year=year).date()
strptime_date(year, text) == (year - 2018) * 365 + DaysBefore(text[2]) + text[1] - 1

\* datetime.weekday(): 0 is Monday
weekday(d) == d % 7

Apr2 == <<2, 4>>      \* a Monday
Apr4 == <<4, 4>>      \* a Wednesday
Apr9 == <<9, 4>>      \* a Monday
Apr11 == <<11, 4>>    \* a Wednesday

Years == {2018}

(***************************************************************************)
(* parse_week_interval, date_in_intervals                                  *)
(***************************************************************************)
\* parse_week_interval(in_year, interval_string): the text split on '-',
\* every part parsed and moved to in_year; nothing orders the two ends.
parse_week_interval(year, interval_string) ==
    [i \in DOMAIN interval_string |-> strptime_date(year, interval_string[i])]

RECURSIVE date_in_intervals_from(_, _, _)
date_in_intervals_from(d, ivs, i) ==
    IF i > Len(ivs) THEN Len(ivs) = 0
    ELSE LET interval == ivs[i]
             instant_interval_is_valid == Len(interval) = 1 /\ d = interval[1]
             range_interval_is_valid ==
                 Len(interval) = 2 /\ interval[1] <= d /\ d <= interval[2]
         IN IF instant_interval_is_valid \/ range_interval_is_valid
            THEN TRUE
            ELSE date_in_intervals_from(d, ivs, i + 1)

\* date_in_intervals(date, intervals)
date_in_intervals(d, ivs) == date_in_intervals_from(d, ivs, 1)

(***************************************************************************)
(* Inputs: interval texts as the course pages and location cells hold them *)
(***************************************************************************)
IntervalStrings ==
    { <<Apr4>>,                \* "4 Apr": an instant
      <<Apr2, Apr9>>,          \* "2 Apr - 9 Apr": a range
      <<Apr9, Apr2>>,          \* "9 Apr - 2 Apr": the ends the other way round
      <<Apr11>>,               \* "11 Apr"
      <<Apr2, Apr4, Apr9>> }   \* "2 Apr - 4 Apr - 9 Apr": three parts

QueryDates == {strptime_date(y, t) : y \in Years, t \in {Apr2, Apr4, Apr9, Apr11}}

IdleI ==
    /\ interval_strings = <<>> /\ in_year = 2018 /\ intervals = <<>>
    /\ date = 0 /\ in_intervals = <<>> /\ pcI = "idle"

InitI ==
    /\ interval_strings \in SeqsUpTo(IntervalStrings, MaxIntervals)
    /\ in_year \in Years
    /\ date \in QueryDates
    /\ intervals = <<>>
    /\ in_intervals = <<>>
    /\ pcI = "text"

\* Activity.from_element, lines 229-232: every week text is parsed
ParseWeeks ==
    /\ pcI = "text"
    /\ intervals' = [i \in DOMAIN interval_strings |->
                        parse_week_interval(in_year, interval_strings[i])]
    /\ pcI' = "parsed"
    /\ UNCHANGED <<interval_strings, in_year, date, in_intervals, varsL, varsS, varsR, varsG>>

\* a call of date_in_intervals(date, intervals)
CallDateInIntervals ==
    /\ pcI = "parsed"
    /\ in_intervals' = <<date_in_intervals(date, intervals)>>
    /\ pcI' = "done"
    /\ UNCHANGED <<interval_strings, in_year, intervals, date, varsL, varsS, varsR, varsG>>

(***************************************************************************)
(* Location                                                                *)
(***************************************************************************)
\* A location text is [place, dates]: dates is <<>> when the text has no
\* parenthesis (LOCATION_RE does not match), else <<list of interval texts>>.
\* Location.from_string(in_year, location_string)
Location_from_string(year, location_string) ==
    IF location_string.dates = <<>>
    THEN [place |-> location_string.place, valid_intervals |-> <<>>]
    ELSE LET ivs == location_string.dates[1]
         IN [place |-> location_string.place,
             valid_intervals |->
                 [i \in DOMAIN ivs |->
                     [j \in DOMAIN ivs[i] |-> strptime_date(year, ivs[i][j])]]]

\* Location.valid_for(date): date is a datetime
Location_valid_for(loc, dt) == date_in_intervals(dt.date, loc.valid_intervals)

RECURSIVE first_valid_location(_, _, _)
first_valid_location(locs, dt, i) ==
    IF i > Len(locs) THEN <<>>
    ELSE IF Location_valid_for(locs[i], dt) THEN <<locs[i]>>
    ELSE first_valid_location(locs, dt, i + 1)

\* a plausible slip: the generator is consumed to its end, the last match wins
RECURSIVE last_valid_location(_, _, _)
last_valid_location(locs, dt, i) ==
    IF i < 1 THEN <<>>
    ELSE IF Location_valid_for(locs[i], dt) THEN <<locs[i]>>
    ELSE last_valid_location(locs, dt, i - 1)

location_valid_for_last(locs, dt) == last_valid_location(locs, dt, Len(locs))

\* Activity.location_valid_for(date): next(generator, None)
location_valid_for(locs, dt) == first_valid_location(locs, dt, 1)

LocationStrings ==
    { [place |-> "C2 Lecture Theatre", dates |-> <<>>],
      [place |-> "Jack Erskine 001", dates |-> << <<<<Apr4>>>> >>],
      [place |-> "Jack Erskine 244", dates |-> << <<<<Apr2, Apr4>>, <<Apr11>>>> >>],
      [place |-> "Jack Erskine 031", dates |-> << <<<<Apr9>>>> >>] }

QueryTimes == {570}

Datetimes == [date : QueryDates, time : QueryTimes]

IdleL ==
    /\ location_strings = <<>> /\ locations = <<>>
    /\ loc_date = [date |-> 0, time |-> 0]
    /\ valid_location = <<"unset">> /\ pcL = "idle"

InitL ==
    /\ location_strings \in SeqsUpTo(LocationStrings, MaxLocations)
    /\ locations = <<>>
    /\ loc_date \in Datetimes
    /\ valid_location = <<"unset">>
    /\ pcL = "text"

\* Activity.from_element, lines 233-237
ParseLocations ==
    /\ pcL = "text"
    /\ locations' = [i \in DOMAIN location_strings |->
                        Location_from_string(2018, location_strings[i])]
    /\ pcL' = "parsed"
    /\ UNCHANGED <<location_strings, loc_date, valid_location, varsI, varsS, varsR, varsG>>

\* a call of activity.location_valid_for(loc_date)
CallLocationValidFor ==
    /\ pcL = "parsed"
    /\ valid_location' = location_valid_for(locations, loc_date)
    /\ pcL' = "done"
    /\ UNCHANGED <<location_strings, locations, loc_date, varsI, varsS, varsR, varsG>>

(***************************************************************************)
(* Activity, Course, activities_on (timetable.py)                          *)
(***************************************************************************)
\* list(calendar.day_name).index, the converter of Activity.day
day_index(name) ==
    CASE name = "Monday" -> 0 [] name = "Tuesday" -> 1 [] name = "Wednesday" -> 2
      [] name = "Thursday" -> 3 [] name = "Friday" -> 4 [] name = "Saturday" -> 5
      [] name = "Sunday" -> 6

\* the attrs constructor of Activity: the day name is converted to its index.
\* activity_id is (primary, part): part is None (<<>>) or <<int>>.
Activity(activity_id, name, day, start, end, valid_intervals, locs) ==
    [activity_id |-> activity_id, name |-> name, day |-> day_index(day),
     start |-> start, end |-> end, valid_intervals |-> valid_intervals,
     locations |-> locs]

\* the attrs constructor of Course
Course(title, year, semester, activities) ==
    [title |-> title, year |-> year, semester |-> semester,
     activities |-> activities]

\* a plausible slip: only the weeks are tested, not the weekday
Activity_valid_for_weeks_only(act, dt) ==
    date_in_intervals(dt.date, act.valid_intervals)

\* Activity.valid_for(date)
Activity_valid_for(act, dt) ==
    weekday(dt.date) = act.day /\ date_in_intervals(dt.date, act.valid_intervals)

\* dict.get(key, default)
dict_get(d, key, default) == IF key \in DOMAIN d THEN d[key] ELSE default

\* a plausible slip: every row of a section counts as selected when the
\* section has no stored selection
is_selected_any_default(course, act, selected) ==
    LET key == <<course.title, act.name>>
    IN IF key \in DOMAIN selected THEN act.activity_id[1] = selected[key] ELSE TRUE

\* activities_on, lines 352-353: the activity is one the user takes
is_selected(course, act, selected) ==
    act.activity_id[1] = dict_get(selected, <<course.title, act.name>>, 1)

\* itertools.chain(*(zip(cycle([course]), course.activities) for course in courses))
RECURSIVE chain_activities(_, _)
chain_activities(cs, i) ==
    IF i > Len(cs) THEN <<>>
    ELSE [k \in DOMAIN cs[i].activities |-> <<cs[i], cs[i].activities[k]>>]
             \o chain_activities(cs, i + 1)

\* sorted(pairs, key=lambda capair: capair[1].start): a stable sort, an
\* element goes after every element already placed whose key is not greater
RECURSIVE insert_by_start(_, _)
insert_by_start(sorted, pair) ==
    IF sorted = <<>> THEN <<pair>>
    ELSE IF sorted[Len(sorted)][2].start <= pair[2].start
         THEN Append(sorted, pair)
         ELSE Append(insert_by_start(SubSeq(sorted, 1, Len(sorted) - 1), pair),
                     sorted[Len(sorted)])

RECURSIVE sorted_by_start(_, _)
sorted_by_start(pairs, n) ==
    IF n = 0 THEN <<>>
    ELSE insert_by_start(sorted_by_start(pairs, n - 1), pairs[n])

\* the pairs of the chain that pass the selection test alone
selected_pairs(cs, selected) ==
    SelectSeq(chain_activities(cs, 1),
              LAMBDA p : is_selected(p[1], p[2], selected))

\* activities_on(courses, date, selected_activities)
activities_on(cs, dt, selected) ==
    LET filtered_activities ==
            SelectSeq(chain_activities(cs, 1),
                      LAMBDA p : is_selected(p[1], p[2], selected)
                                 /\ Activity_valid_for(p[2], dt))
    IN sorted_by_start(filtered_activities, Len(filtered_activities))

Weeks2To9 == <<parse_week_interval(2018, <<Apr2, Apr9>>)>>
WeekOf11 == <<parse_week_interval(2018, <<Apr11>>)>>

\* rows as a course page holds them
ActivityRows ==
    { Activity(<<1, <<>>>>,  "Lecture A", "Wednesday", 600, 660, Weeks2To9, <<>>),
      Activity(<<1, <<1>>>>, "Lecture A", "Wednesday", 660, 720, WeekOf11, <<>>),
      Activity(<<2, <<>>>>,  "Lecture A", "Wednesday", 600, 660, Weeks2To9, <<>>),
      Activity(<<1, <<>>>>,  "Lab A", "Monday", 540, 660, Weeks2To9, <<>>),
      Activity(<<2, <<>>>>,  "Lab A", "Wednesday", 540, 600, Weeks2To9, <<>>) }

CourseTitles == <<"COSC261", "COSC262">>

\* what config.get_selected_activities can return: positive integers for
\* some of the sections
Selections ==
    { [k \in {} |-> 1],
      [k \in {<<"COSC261", "Lecture A">>} |-> 2],
      [k \in {<<"COSC261", "Lecture A">>, <<"COSC262", "Lab A">>} |->
          IF k[1] = "COSC261" THEN 3 ELSE 2] }

OnDates == [date : {strptime_date(2018, Apr4), strptime_date(2018, Apr11)},
            time : QueryTimes]

IdleS ==
    /\ courses = <<>> /\ selected_activities = [k \in {} |-> 1]
    /\ on_date = [date |-> 0, time |-> 0]
    /\ taken = <<>> /\ relevant = <<>> /\ pcS = "idle"

InitS ==
    /\ \E acts \in [DOMAIN CourseTitles -> SeqsUpTo(ActivityRows, MaxActivities)] :
          courses = [i \in DOMAIN CourseTitles |->
                        Course(CourseTitles[i], 2018, 1, acts[i])]
    /\ selected_activities \in Selections
    /\ on_date \in OnDates
    /\ taken = <<>>
    /\ relevant = <<>>
    /\ pcS = "ready"

\* a call of activities_on(courses, on_date, selected_activities)
CallActivitiesOn ==
    /\ pcS = "ready"
    /\ taken' = selected_pairs(courses, selected_activities)
    /\ relevant' = activities_on(courses, on_date, selected_activities)
    /\ pcS' = "done"
    /\ UNCHANGED <<courses, selected_activities, on_date, varsI, varsL, varsR, varsG>>

(***************************************************************************)
(* cli (main.py): config, cache load, fetch, selection, cache write        *)
(*                                                                         *)
(* A Python dict is the sequence of its <<key, value>> items in insertion  *)
(* order.  main.py is written against a Course whose activities are a dict *)
(* section name -> dict key -> Activity, and an Activity with day (a day   *)
(* name), start_time, end_time and location.  A dict key or a config value *)
(* is <<"int", n>> or <<"str", n>> (the text of n).  The name of a config  *)
(* section f'{title}/{section}' is the pair <<title, section>>.            *)
(***************************************************************************)
PyInt(n) == <<"int", n>>
PyStr(n) == <<"str", n>>

odict_has(d, key) == \E i \in DOMAIN d : d[i][1] = key

\* d[key], for a key of d
odict_at(d, key) == d[CHOOSE i \in DOMAIN d : d[i][1] = key][2]

\* d[key] = value: a present key keeps its place, a new one goes last
odict_set(d, key, value) ==
    IF odict_has(d, key)
    THEN [i \in DOMAIN d |-> IF d[i][1] = key THEN <<key, value>> ELSE d[i]]
    ELSE Append(d, <<key, value>>)

\* the Activity main.py reads: a.day, a.start_time, a.end_time, a.location
MainActivity(activity_id, day, start_time, end_time, valid_intervals, location) ==
    [activity_id |-> activity_id, day |-> day, start_time |-> start_time,
     end_time |-> end_time, valid_intervals |-> valid_intervals,
     location |-> location]

\* timetable.Course(course_name, course_year, course_semester) as main.py
\* uses it: activities is an empty dict until fetched
MainCourse(title, year, semester) ==
    [title |-> title, year |-> year, semester |-> semester, activities |-> <<>>]

key_tuple(course) == <<course.title, course.year, course.semester>>

\* get_courses(config): one Course per 'course/<title>' section, in file order
get_courses(cfg) ==
    [i \in DOMAIN cfg.courses |->
        MainCourse(cfg.courses[i][1], cfg.courses[i][2], cfg.courses[i][3])]

\* get_allocated_activity(config, course, section_name, default=1)
get_allocated_activity(cfg, course, section_name) ==
    LET section_config_name == <<course.title, section_name>>
    IN IF section_config_name \in DOMAIN cfg.allocated
          /\ cfg.allocated[section_config_name] /= <<>>
       THEN cfg.allocated[section_config_name][1]
       ELSE PyInt(1)

\* json.dump(..., cls=timetable.TimetableEncoder) of one Course
TimetableEncoder(course) ==
    [type |-> "Course", title |-> course.title, year |-> course.year,
     semester |-> course.semester, activities |-> course.activities]

\* json.load(..., object_hook=timetable.timetable_load_hook) of one object
timetable_load_hook(obj) ==
    [title |-> obj.title, year |-> obj.year, semester |-> obj.semester,
     activities |-> obj.activities]

\* cli, lines 94-95: {(title, year, semester): course for course in get_courses(config)}
RECURSIVE dict_of_courses(_, _)
dict_of_courses(cs, n) ==
    IF n = 0 THEN <<>>
    ELSE odict_set(dict_of_courses(cs, n - 1), key_tuple(cs[n]), cs[n])

\* a plausible slip: every cached course is put into the dict
RECURSIVE load_cache_unfiltered(_, _, _)
load_cache_unfiltered(cs, json_config, i) ==
    IF i > Len(json_config) THEN cs
    ELSE IF json_config[i].type /= "Course"
         THEN load_cache_unfiltered(cs, json_config, i + 1)
    ELSE LET course == timetable_load_hook(json_config[i])
         IN load_cache_unfiltered(odict_set(cs, key_tuple(course), course),
                                  json_config, i + 1)

\* cli, lines 102-107: a cached course takes the place of the declared course
\* with its key; one with a key the config lacks is passed over
RECURSIVE load_cache(_, _, _)
load_cache(cs, json_config, i) ==
    IF i > Len(json_config) THEN cs
    ELSE IF json_config[i].type /= "Course"
         THEN load_cache(cs, json_config, i + 1)
    ELSE LET course == timetable_load_hook(json_config[i])
         IN IF odict_has(cs, key_tuple(course))
            THEN load_cache(odict_set(cs, key_tuple(course), course),
                            json_config, i + 1)
            ELSE load_cache(cs, json_config, i + 1)

DayNames == {"Monday", "Tuesday", "Wednesday", "Thursday", "Friday",
             "Saturday", "Sunday"}

NoActivities == [d \in DayNames |-> <<>>]

\* cli, lines 112-118: one entry per section of the course; the default of
\* .get, the first offering, is evaluated first and raises IndexError on a
\* section without offerings
RECURSIVE resolve_sections(_, _, _, _)
resolve_sections(cfg, course, acts, i) ==
    IF i > Len(course.activities) THEN [raised |-> FALSE, activities |-> acts]
    ELSE LET section_name == course.activities[i][1]
             section_activities == course.activities[i][2]
             allocated_activity == get_allocated_activity(cfg, course, section_name)
         IN IF section_activities = <<>>
            THEN [raised |-> TRUE, activities |-> acts]
            ELSE LET a == IF odict_has(section_activities, allocated_activity)
                          THEN odict_at(section_activities, allocated_activity)
                          ELSE section_activities[1][2]
                 IN resolve_sections(cfg, course,
                        [acts EXCEPT ![a.day] =
                            Append(@, <<a, section_name, course>>)], i + 1)

Wed10 == MainActivity(<<1, <<>>>>, "Wednesday", 600, 660, Weeks2To9, <<>>)
Wed11 == MainActivity(<<2, <<>>>>, "Wednesday", 660, 720, Weeks2To9, <<>>)
Fri9 == MainActivity(<<3, <<>>>>, "Friday", 540, 600, Weeks2To9, <<>>)
Mon9 == MainActivity(<<1, <<>>>>, "Monday", 540, 660, Weeks2To9, <<>>)

\* what fetch_details can leave in course.activities
Pages ==
    { << <<"Lecture A", << <<PyInt(1), Wed10>>, <<PyInt(2), Wed11>> >> >>,
         <<"Lab A", << <<PyInt(1), Mon9>> >> >> >>,
      << <<"Lecture A", << <<PyStr(1), Wed10>>, <<PyStr(2), Wed11>>,
                           <<PyStr(3), Fri9>> >> >> >>,
      << <<"Lecture A", <<>> >> >>,      \* a section header without rows
      <<>> }                             \* a page without sections

FetchOutcomes ==
    {[raises |-> TRUE, activities |-> <<>>]}
        \cup {[raises |-> FALSE, activities |-> page] : page \in Pages}

K261 == <<"COSC261", 2018, 1>>
K262 == <<"COSC262", 2018, 1>>
K262Next == <<"COSC262", 2019, 1>>

Configs ==
    [courses : {<<>>, <<K261>>, <<K261, K262>>, <<K261, K262Next>>, <<K262>>},
     allocated : { [k \in {} |-> <<>>],
                   [k \in {<<"COSC261", "Lecture A">>} |-> <<PyStr(2)>>],
                   [k \in {<<"COSC261", "Lecture A">>} |-> <<PyStr(4)>>] }]

\* the datetimes `next` is asked about (--at)
Todays == [date : {strptime_date(2018, Apr4), strptime_date(2018, Apr11)},
           time : {570, 600}]

\* a plausible slip: every course of the dict is fetched, cached or not
needs_fetch_always(course) == course.title = course.title

\* cli, line 110: a course whose activities dict is empty is fetched
needs_fetch(course) == course.activities = <<>>

IdleR ==
    /\ config = [courses |-> <<>>, allocated |-> [k \in {} |-> <<>>]]
    /\ data_json = <<>> /\ cli_courses = <<>> /\ cli_activities = NoActivities
    /\ course_i = 0 /\ fetch_log = {} /\ pcR = "off"

InitR ==
    /\ config \in Configs
    /\ data_json = <<>>
    /\ cli_courses = <<>>
    /\ cli_activities = NoActivities
    /\ course_i = 0
    /\ fetch_log = {}
    /\ pcR = "idle"

\* between two runs the user edits the config file
EditConfig ==
    /\ pcR = "idle"
    /\ config' \in Configs \ {config}
    /\ UNCHANGED <<data_json, cli_courses, cli_activities, course_i, fetch_log,
                   pcR, varsI, varsL, varsS, varsG>>

\* cli, lines 90-107: the config is parsed and the cache, when the file
\* exists, is loaded over the declared courses
CliLoad ==
    /\ pcR = "idle"
    /\ LET declared == get_courses(config)
           cs == dict_of_courses(declared, Len(declared))
       IN cli_courses' = IF data_json = <<>> THEN cs
                         ELSE load_cache(cs, data_json[1], 1)
    /\ cli_activities' = NoActivities
    /\ course_i' = 1
    /\ fetch_log' = {}
    /\ pcR' = "courses"
    /\ UNCHANGED <<config, data_json, varsI, varsL, varsS, varsG>>

\* cli, lines 109-118, one turn of the loop: a course without activities is
\* fetched (the fetch may raise), then every section adds its entry
CliCourse ==
    /\ pcR = "courses"
    /\ course_i <= Len(cli_courses)
    /\ LET course == cli_courses[course_i][2]
           fetches == needs_fetch(course)
       IN /\ fetch_log' = IF fetches THEN fetch_log \cup {cli_courses[course_i][1]}
                          ELSE fetch_log
          /\ \E outcome \in (IF fetches THEN FetchOutcomes
                             ELSE {[raises |-> FALSE, activities |-> course.activities]}) :
               IF outcome.raises
               THEN /\ pcR' = "raised"
                    /\ UNCHANGED <<cli_courses, cli_activities, course_i>>
               ELSE LET fetched == [course EXCEPT !.activities = outcome.activities]
                        r == resolve_sections(config, fetched, cli_activities, 1)
                    IN /\ cli_courses' =
                              [cli_courses EXCEPT ![course_i] = <<@[1], fetched>>]
                       /\ IF r.raised
                          THEN /\ pcR' = "raised"
                               /\ UNCHANGED <<cli_activities, course_i>>
                          ELSE /\ cli_activities' = r.activities
                               /\ course_i' = course_i + 1
                               /\ pcR' = "courses"
    /\ UNCHANGED <<config, data_json, varsI, varsL, varsS, varsG>>

\* cli, lines 120-124, and click after the callback has returned: the courses
\* and the activities are put into ctx.obj, the courses are written to
\* data.json, then the subcommand of the command line is invoked with its
\* options
CliWrite ==
    /\ pcR = "courses"
    /\ course_i > Len(cli_courses)
    /\ ctx_activities' = cli_activities
    /\ data_json' = << [i \in DOMAIN cli_courses |->
                          TimetableEncoder(cli_courses[i][2])] >>
    /\ pcR' = "written"
    /\ today' \in Todays
    /\ show_time' \in BOOLEAN
    /\ pcG' = "command"
    /\ UNCHANGED <<config, cli_courses, cli_activities, course_i, fetch_log,
                   shown, next_classes, printed, varsI, varsL, varsS>>

\* cli, lines 120-124, when open(json_path, 'w') raises (a data.json that may
\* not be written): the exception leaves cli, no subcommand is invoked
CliWriteRaises ==
    /\ pcR = "courses"
    /\ course_i > Len(cli_courses)
    /\ ctx_activities' = cli_activities
    /\ pcR' = "write_raised"
    /\ UNCHANGED <<config, data_json, cli_courses, cli_activities, course_i,
                   fetch_log, today, show_time, shown, next_classes, printed,
                   pcG, varsI, varsL, varsS>>

\* the process ends: on an exception of cli, or after the subcommand
Exit ==
    /\ \/ pcR \in {"raised", "write_raised"}
       \/ pcR = "written" /\ pcG \in {"shown", "next"}
    /\ cli_courses' = <<>>
    /\ cli_activities' = NoActivities
    /\ course_i' = 0
    /\ fetch_log' = {}
    /\ pcR' = "idle"
    /\ ctx_activities' = NoActivities
    /\ today' = [date |-> 0, time |-> 0]
    /\ show_time' = FALSE
    /\ shown' = <<>>
    /\ next_classes' = <<>>
    /\ printed' = <<>>
    /\ pcG' = "off"
    /\ UNCHANGED <<config, data_json, varsI, varsL, varsS>>

(***************************************************************************)
(* render_day, show_timetable, show_next (main.py)                         *)
(***************************************************************************)
\* TIMES: the hourly bins '08:00 - 09:00' .. '16:00 - 17:00', each label as
\* the minutes it names
TIMES == [i \in 1..9 |-> <<480 + 60 * (i - 1), 480 + 60 * i>>]

\* timedelta.seconds of a difference of two times on one day, in minutes:
\* never negative, a negative difference wraps into the day before
timedelta_seconds(minutes) == (minutes * 60) % 86400

\* activity_as_str(activity, section, course): f'{course.title} {section}'
activity_as_str(entry) == <<entry[3].title, entry[2]>>

\* the alphabetical place of the texts the model uses
str_rank(text) ==
    CASE text = "COSC261" -> 1 [] text = "COSC262" -> 2
      [] text = "Lab A" -> 1 [] text = "Lecture A" -> 2
      [] text = "Tutorial A" -> 3 [] text = "Workshop A" -> 4

\* the order of (activity, section_name, course) tuples: the Activity by
\* weekday, start time and identifier, then the section name and the course
entry_key(entry) ==
    <<day_index(entry[1].day), entry[1].start_time, entry[1].activity_id[1],
      IF entry[1].activity_id[2] = <<>> THEN -1 ELSE entry[1].activity_id[2][1],
      str_rank(entry[2]), str_rank(entry[3].title)>>

RECURSIVE key_le(_, _, _)
key_le(k1, k2, i) ==
    IF i > Len(k1) THEN TRUE
    ELSE IF k1[i] < k2[i] THEN TRUE
    ELSE IF k1[i] > k2[i] THEN FALSE
    ELSE key_le(k1, k2, i + 1)

RECURSIVE insert_entry(_, _)
insert_entry(sorted, entry) ==
    IF sorted = <<>> THEN <<entry>>
    ELSE IF key_le(entry_key(sorted[Len(sorted)]), entry_key(entry), 1)
         THEN Append(sorted, entry)
         ELSE Append(insert_entry(SubSeq(sorted, 1, Len(sorted) - 1), entry),
                     sorted[Len(sorted)])

\* sorted(entries)
RECURSIVE sorted_entries(_, _)
sorted_entries(entries, n) ==
    IF n = 0 THEN <<>>
    ELSE insert_entry(sorted_entries(entries, n - 1), entries[n])

\* render_day, lines 36-37: the activity goes into length_in_hours bins from
\* hour_index on; a bin past the last one raises IndexError.  The result of
\* placing hours i..n-1.
RECURSIVE bin_activity(_, _, _, _, _)
bin_activity(binned, entry, hour_index, i, n) ==
    IF i >= n THEN [raised |-> FALSE, binned |-> binned]
    ELSE IF hour_index + i + 1 > Len(binned)
         THEN [raised |-> TRUE, binned |-> binned]
         ELSE bin_activity([binned EXCEPT ![hour_index + i + 1] = Append(@, entry)],
                           entry, hour_index, i + 1, n)

\* render_day, lines 28-37, over the sorted activities from position k on
RECURSIVE bin_activities(_, _, _)
bin_activities(binned, day_activities, k) ==
    IF k > Len(day_activities) THEN [raised |-> FALSE, binned |-> binned]
    ELSE LET a == day_activities[k][1]
             day_start == TIMES[1][1]
             tdelta == a.start_time - day_start
             activity_length == a.end_time - a.start_time
             hour_index == timedelta_seconds(tdelta) \div 3600
             length_in_hours == timedelta_seconds(activity_length) \div 3600
             r == bin_activity(binned, day_activities[k], hour_index, 0,
                               length_in_hours)
         IN IF r.raised THEN r
            ELSE bin_activities(r.binned, day_activities, k + 1)

\* render_day(day, activities): the day that heads the column, the bins and
\* the cells under it, a cell being the lines joined by '\n'; raised when a
\* bin index is out of range
render_day(day, entries) ==
    LET day_activities == sorted_entries(entries, Len(entries))
        r == bin_activities([i \in DOMAIN TIMES |-> <<>>], day_activities, 1)
    IN [day |-> day, raised |-> r.raised, binned |-> r.binned,
        rendered |-> IF r.raised THEN <<>>
                     ELSE [i \in DOMAIN r.binned |->
                              [j \in DOMAIN r.binned[i] |->
                                  activity_as_str(r.binned[i][j])]]]

\* the day names in the order of their index
WeekOrder == <<"Monday", "Tuesday", "Wednesday", "Thursday", "Friday",
               "Saturday", "Sunday">>

\* show_timetable: every day that has activities is rendered, in week order
show_timetable(acts) ==
    LET sorted_days == SelectSeq(WeekOrder, LAMBDA d : acts[d] /= <<>>)
        rendered_days == [i \in DOMAIN sorted_days |->
                             render_day(sorted_days[i], acts[sorted_days[i]])]
    IN [raised |-> \E i \in DOMAIN rendered_days : rendered_days[i].raised,
        days |-> rendered_days]

\* show_next, lines 171-179: the loop over the sorted activities of the day
RECURSIVE next_group(_, _, _, _)
next_group(days_activities, now, k, acc) ==
    IF k > Len(days_activities) THEN acc
    ELSE LET start == days_activities[k][1].start_time
         IN IF Len(acc) > 0 /\ start = acc[Len(acc)][1].start_time
            THEN next_group(days_activities, now, k + 1,
                            Append(acc, days_activities[k]))
            ELSE IF Len(acc) > 0 /\ start /= acc[Len(acc)][1].start_time
            THEN acc
            ELSE IF now.time < start
            THEN next_group(days_activities, now, k + 1, <<days_activities[k]>>)
            ELSE next_group(days_activities, now, k + 1, acc)

\* show_next, lines 158-179: nothing at a weekend, else the group
show_next_classes(acts, now) ==
    IF weekday(now.date) > 4 THEN <<>>
    ELSE LET week_day == WeekOrder[weekday(now.date) + 1]
             days_activities == sorted_entries(acts[week_day], Len(acts[week_day]))
         IN next_group(days_activities, now, 1, <<>>)

\* show_next, lines 188-195: a class without a valid location prints nothing
RECURSIVE print_classes(_, _, _)
print_classes(classes, now, k) ==
    IF k > Len(classes) THEN <<>>
    ELSE LET a == classes[k][1]
             loc == location_valid_for(a.location, now)
         IN (IF loc = <<>> THEN <<>>
             ELSE << <<classes[k][3].title, classes[k][2], a.start_time,
                       loc[1].place>> >>)
            \o print_classes(classes, now, k + 1)

\* show_next, lines 181-195: what is printed
show_next_output(classes, now, flag) ==
    IF Len(classes) = 0 THEN <<>>
    ELSE IF flag THEN << <<"in", classes[1][1].start_time - now.time>> >>
    ELSE print_classes(classes, now, 1)

C2Always == <<Location_from_string(2018, [place |-> "C2 Lecture Theatre", dates |-> <<>>])>>
JE001On11 == <<Location_from_string(2018, [place |-> "Jack Erskine 001",
                                           dates |-> << <<<<Apr11>>>> >>])>>

\* resolved activities as cli hands them over: one per course and section
GridEntries ==
    { <<MainActivity(<<1, <<>>>>, "Wednesday", 600, 660, Weeks2To9, C2Always),
        "Lecture A", MainCourse("COSC261", 2018, 1)>>,
      <<MainActivity(<<1, <<>>>>, "Wednesday", 600, 660, Weeks2To9, JE001On11),
        "Lecture A", MainCourse("COSC262", 2018, 1)>>,
      <<MainActivity(<<2, <<>>>>, "Wednesday", 570, 630, Weeks2To9, C2Always),
        "Lab A", MainCourse("COSC261", 2018, 1)>>,
      <<MainActivity(<<1, <<1>>>>, "Wednesday", 540, 660, Weeks2To9, C2Always),
        "Tutorial A", MainCourse("COSC262", 2018, 1)>>,
      <<MainActivity(<<1, <<>>>>, "Wednesday", 660, 720, WeekOf11, C2Always),
        "Tutorial A", MainCourse("COSC261", 2018, 1)>>,
      <<MainActivity(<<1, <<>>>>, "Monday", 420, 540, Weeks2To9, C2Always),
        "Lab A", MainCourse("COSC262", 2018, 1)>>,
      <<MainActivity(<<1, <<>>>>, "Wednesday", 720, 750, Weeks2To9, <<>>),
        "Workshop A", MainCourse("COSC262", 2018, 1)>>,
      <<MainActivity(<<2, <<>>>>, "Wednesday", 960, 1080, Weeks2To9, C2Always),
        "Workshop A", MainCourse("COSC261", 2018, 1)>> }

\* activities[a.day].append(...) for every entry of a list, as cli does
RECURSIVE by_day(_, _)
by_day(entries, n) ==
    IF n = 0 THEN NoActivities
    ELSE [by_day(entries, n - 1) EXCEPT ![entries[n][1].day] = Append(@, entries[n])]

IdleG ==
    /\ ctx_activities = NoActivities /\ today = [date |-> 0, time |-> 0]
    /\ show_time = FALSE /\ shown = <<>> /\ next_classes = <<>>
    /\ printed = <<>> /\ pcG = "off"

InitG ==
    /\ \E entries \in SeqsUpTo(GridEntries, MaxEntries) :
          /\ \A i, j \in DOMAIN entries : i /= j => entries[i] /= entries[j]
          /\ ctx_activities = by_day(entries, Len(entries))
    /\ today \in Todays
    /\ show_time \in BOOLEAN
    /\ shown = <<>>
    /\ next_classes = <<>>
    /\ printed = <<>>
    /\ pcG = "command"

\* the command show
ShowTimetable ==
    /\ pcG = "command"
    /\ shown' = <<show_timetable(ctx_activities)>>
    /\ pcG' = "shown"
    /\ UNCHANGED <<ctx_activities, today, show_time, next_classes, printed,
                   varsI, varsL, varsS, varsR>>

\* the command next
ShowNext ==
    /\ pcG = "command"
    /\ next_classes' = show_next_classes(ctx_activities, today)
    /\ printed' = show_next_output(show_next_classes(ctx_activities, today),
                                   today, show_time)
    /\ pcG' = "next"
    /\ UNCHANGED <<ctx_activities, today, show_time, shown,
                   varsI, varsL, varsS, varsR>>

(***************************************************************************)
(* Specifications                                                          *)
(***************************************************************************)
NextI == ParseWeeks \/ CallDateInIntervals
InitIntervals == InitI /\ IdleL /\ IdleS /\ IdleR /\ IdleG
SpecIntervals == InitIntervals /\ [][NextI]_vars

NextL == ParseLocations \/ CallLocationValidFor
InitLocation == InitL /\ IdleI /\ IdleS /\ IdleR /\ IdleG
SpecLocation == InitLocation /\ [][NextL]_vars

NextS == CallActivitiesOn
InitSchedule == InitS /\ IdleI /\ IdleL /\ IdleR /\ IdleG
SpecSchedule == InitSchedule /\ [][NextS]_vars

NextR ==
    \/ EditConfig \/ CliLoad \/ CliCourse \/ CliWrite \/ CliWriteRaises
    \/ ShowTimetable \/ ShowNext \/ Exit
InitRun == InitR /\ IdleI /\ IdleL /\ IdleS /\ IdleG
SpecRun == InitRun /\ [][NextR]_vars

\* selection in both programs: activities_on and the loop of cli
NextSelection ==
    \/ CallActivitiesOn
    \/ EditConfig \/ CliLoad \/ CliCourse \/ CliWrite \/ CliWriteRaises
    \/ ShowTimetable \/ ShowNext \/ Exit
InitSelection == IdleI /\ IdleL /\ IdleG /\ ((InitS /\ IdleR) \/ (InitR /\ IdleS))
SpecSelection == InitSelection /\ [][NextSelection]_vars

NextG == ShowTimetable \/ ShowNext
InitCommands == InitG /\ IdleI /\ IdleL /\ IdleS /\ IdleR
SpecCommands == InitCommands /\ [][NextG]_vars

(***************************************************************************)
(* Claims                                                                  *)
(***************************************************************************)
\* what the documentation of date_in_intervals says, stated without the loop
InSomeInterval(d, ivs) ==
    \/ Len(ivs) = 0
    \/ \E i \in DOMAIN ivs : Len(ivs[i]) = 1 /\ ivs[i][1] = d
    \/ \E i \in DOMAIN ivs : Len(ivs[i]) = 2 /\ ivs[i][1] <= d /\ d <= ivs[i][2]

\* C8, first half: date_in_intervals is true exactly when the list is empty,
\* or an instant interval is the date, or a range interval holds the date.
C8_Characterisation ==
    pcI = "done" => in_intervals[1] = InSomeInterval(date, intervals)

\* C8, second half: a non-empty list answers true for the own date of each
\* of its instants and for both ends of each of its ranges.
C8_OwnBoundaries ==
    (pcI = "done" /\ \E i \in DOMAIN intervals :
                        /\ Len(intervals[i]) \in {1, 2}
                        /\ date \in Range(intervals[i]))
        => in_intervals[1] = TRUE

\* C8: date_in_intervals(date, intervals) is true exactly when the list is
\* empty, an instant equals the date or a range holds it; in particular it is
\* true for every element's own instant date, range start and range end.
C8_InIntervals == C8_Characterisation /\ C8_OwnBoundaries

\* whether location i of the activity is valid for the queried date, stated
\* without the loops of the code
LocationCovers(i) == InSomeInterval(loc_date.date, locations[i].valid_intervals)

\* C9: location_valid_for(date) returns the first Location, in listed order,
\* whose intervals contain the date (no intervals: every date), and returns
\* None exactly when no Location is valid, also with zero locations.
C9_FirstValidLocation ==
    pcL = "done" =>
        \/ /\ valid_location = <<>>
           /\ \A i \in DOMAIN locations : ~LocationCovers(i)
        \/ \E i \in DOMAIN locations :
              /\ valid_location = <<locations[i]>>
              /\ LocationCovers(i)
              /\ \A j \in 1..(i - 1) : ~LocationCovers(j)

\* C9 witness: two locations are valid, the first listed is returned, and it
\* is one with intervals of its own.
C9_Witness ==
    /\ pcL = "done"
    /\ Len(locations) = 2
    /\ locations[1] /= locations[2]
    /\ LocationCovers(1) /\ LocationCovers(2)
    /\ locations[1].valid_intervals /= <<>>
    /\ valid_location = <<locations[1]>>

\* C9 (None): no listed location is valid and None is returned
C9_NoneReached ==
    /\ pcL = "done"
    /\ Len(locations) = 2
    /\ valid_location = <<>>

\* the 2-course inputs of the other order, and each page read bottom up
ReverseSeq(q) == [i \in DOMAIN q |-> q[Len(q) + 1 - i]]

\* whether a row is one activities_on has to return, stated from the
\* documentation: the selection (1 when none is stored), the weekday, the weeks
Qualifies(course, act) ==
    LET key == <<course.title, act.name>>
        chosen == IF key \in DOMAIN selected_activities
                  THEN selected_activities[key] ELSE 1
    IN /\ act.activity_id[1] = chosen
       /\ on_date.date % 7 = act.day
       /\ InSomeInterval(on_date.date, act.valid_intervals)

\* the rows of the pages, by position
Rows == {<<i, k>> : i \in DOMAIN courses, k \in 1..MaxActivities + 1}

RowsPresent == {r \in Rows : r[2] \in DOMAIN courses[r[1]].activities}

\* C3: activities_on returns exactly the (course, activity) pairs whose
\* primary id equals the stored selection (1 when none is stored) and that
\* are valid for the date (weekday and weeks): none other, none missing.
C3_ExactlyTheQualifying ==
    pcS = "done" =>
        /\ \A p \in Range(relevant) :
              \E r \in RowsPresent :
                  /\ p = <<courses[r[1]], courses[r[1]].activities[r[2]]>>
                  /\ Qualifies(p[1], p[2])
        /\ \A r \in RowsPresent :
              LET p == <<courses[r[1]], courses[r[1]].activities[r[2]]>>
              IN Qualifies(p[1], p[2]) =>
                    Cardinality({j \in DOMAIN relevant : relevant[j] = p})
                      = Cardinality({q \in RowsPresent :
                            <<courses[q[1]], courses[q[1]].activities[q[2]]>> = p})

\* C3 witness: a row is returned through a stored selection, another through
\* the default 1, a selected row is left out for its weekday and another for
\* its weeks.
C3_Witness ==
    /\ pcS = "done"
    /\ \E p \in Range(relevant) : <<p[1].title, p[2].name>> \in DOMAIN selected_activities
    /\ \E p \in Range(relevant) : <<p[1].title, p[2].name>> \notin DOMAIN selected_activities
    /\ \E p \in Range(taken) :
          /\ on_date.date % 7 /= p[2].day
          /\ InSomeInterval(on_date.date, p[2].valid_intervals)
    /\ \E p \in Range(taken) :
          /\ on_date.date % 7 = p[2].day
          /\ ~InSomeInterval(on_date.date, p[2].valid_intervals)

\* the sections of course i: the names its rows carry
SectionsOf(i) == {courses[i].activities[k].name : k \in DOMAIN courses[i].activities}

\* the positions in taken of the rows of section n of course i
TakenOf(i, n) ==
    {j \in DOMAIN taken : taken[j][1] = courses[i] /\ taken[j][2].name = n}

\* C1 as claimed, for activities_on: every section with at least one row has
\* exactly one row among those the selection test keeps.
C1_ExactlyOnePerSection_activities_on ==
    pcS = "done" =>
        \A i \in DOMAIN courses : \A n \in SectionsOf(i) :
            Cardinality(TakenOf(i, n)) = 1

\* C2 as claimed, for activities_on: a stored selection that no row of the
\* section carries (3 for a section with offerings 1 and 2) still resolves the
\* section to its first offering, so one row of the section is kept.
C2_OutOfRangeFallsBack_activities_on ==
    pcS = "done" =>
        \A i \in DOMAIN courses : \A n \in SectionsOf(i) :
            LET key == <<courses[i].title, n>>
                ids == {courses[i].activities[k].activity_id[1] :
                          k \in {k \in DOMAIN courses[i].activities :
                                    courses[i].activities[k].name = n}}
            IN (key \in DOMAIN selected_activities
                    /\ selected_activities[key] \notin ids)
                  => \E j \in TakenOf(i, n) :
                        taken[j][2] = courses[i].activities[
                            CHOOSE k \in DOMAIN courses[i].activities :
                                /\ courses[i].activities[k].name = n
                                /\ \A m \in 1..(k - 1) :
                                      courses[i].activities[m].name /= n]

\* a returned sequence without the course objects: (title, activity)
Titled(pairs) == [j \in DOMAIN pairs |-> <<pairs[j][1].title, pairs[j][2]>>]

\* C7 as claimed, for activities_on: the returned sequence is the same for
\* every order of the courses and of their rows.
C7_SameForEveryPermutation ==
    pcS = "done" =>
        /\ Titled(relevant) =
              Titled(activities_on(ReverseSeq(courses), on_date, selected_activities))
        /\ Titled(relevant) =
              Titled(activities_on(
                          [i \in DOMAIN courses |->
                              [courses[i] EXCEPT !.activities = ReverseSeq(@)]],
                          on_date, selected_activities))

\* the entries of cli's activities for section n of course c, over all days
EntriesOf(c, n) ==
    {e \in UNION {{<<d, j>> : j \in DOMAIN cli_activities[d]} : d \in DayNames} :
        /\ cli_activities[e[1]][e[2]][2] = n
        /\ cli_activities[e[1]][e[2]][3] = c}

\* C1, for the loop of cli: once every course is resolved, each section of
\* each course has exactly one entry, and it is an offering of that section
\* listed under its own day.
C1_OneEntryPerSection_cli ==
    (pcR = "written") =>
        \A i \in DOMAIN cli_courses :
            LET c == cli_courses[i][2]
            IN \A s \in DOMAIN c.activities :
                  /\ Cardinality(EntriesOf(c, c.activities[s][1])) = 1
                  /\ \A e \in EntriesOf(c, c.activities[s][1]) :
                        /\ \E o \in DOMAIN c.activities[s][2] :
                              c.activities[s][2][o][2] = cli_activities[e[1]][e[2]][1]
                        /\ cli_activities[e[1]][e[2]][1].day = e[1]

C1_cliReached ==
    /\ pcR = "written"
    /\ \E i \in DOMAIN cli_courses : Len(cli_courses[i][2].activities) = 2

\* C2 (cli): a stored selection that is no key of the section resolved to the
\* first offering
C2_cliFallsBack ==
    (pcR = "written") =>
        \A i \in DOMAIN cli_courses :
            LET c == cli_courses[i][2]
            IN \A s \in DOMAIN c.activities :
                  ~odict_has(c.activities[s][2],
                             get_allocated_activity(config, c, c.activities[s][1]))
                    => \A e \in EntriesOf(c, c.activities[s][1]) :
                          cli_activities[e[1]][e[2]][1] = c.activities[s][2][1][2]

\* C2 as claimed: an out of range selection resolves the section to its first
\* offering, in activities_on and in cli.
C2_OutOfRangeFallsBack ==
    C2_OutOfRangeFallsBack_activities_on /\ C2_cliFallsBack

ConfigKeys == Range(config.courses)

\* C10: after the cache is loaded, and in the file the run writes, the keys
\* (title, year, semester) of the courses are those the config declares: a
\* cached course with another key is dropped, a cached course stands only
\* under its own key.
C10_KeysAreTheConfigKeys ==
    /\ pcR \in {"courses", "written", "raised", "write_raised"} =>
          /\ {cli_courses[i][1] : i \in DOMAIN cli_courses} = ConfigKeys
          /\ Len(cli_courses) = Cardinality(ConfigKeys)
          /\ \A i \in DOMAIN cli_courses :
                key_tuple(cli_courses[i][2]) = cli_courses[i][1]
    /\ pcR = "written" =>
          /\ {key_tuple(timetable_load_hook(data_json[1][i])) :
                 i \in DOMAIN data_json[1]} = ConfigKeys
          /\ Len(data_json[1]) = Cardinality(ConfigKeys)

\* C10 witness: the cache was loaded under a config that lost one of the
\* cached courses and kept another, which came back with its activities.
C10_Witness ==
    /\ pcR = "courses" /\ course_i = 1
    /\ data_json /= <<>>
    /\ \E i \in DOMAIN data_json[1] :
          key_tuple(timetable_load_hook(data_json[1][i])) \notin ConfigKeys
    /\ \E i \in DOMAIN data_json[1] : \E j \in DOMAIN cli_courses :
          /\ cli_courses[j][2] = timetable_load_hook(data_json[1][i])
          /\ cli_courses[j][2].activities /= <<>>

\* every resolved activity, of any day
AllEntries == UNION {Range(ctx_activities[d]) : d \in DayNames}

\* the activity of an entry takes place on the date of now: weekday and weeks
EntryValidOn(e, now) ==
    /\ now.date % 7 = day_index(e[1].day)
    /\ InSomeInterval(now.date, e[1].valid_intervals)

StartsAfter(now) ==
    {e \in AllEntries : EntryValidOn(e, now) /\ e[1].start_time > now.time}

\* C4 as claimed: next at instant T returns, among the activities valid for
\* T's date (weekday and weeks), all those that share the earliest start
\* strictly after T's time and no other; it is empty only when none starts
\* after T.
C4_NextIsTheEarliestValidGroup ==
    pcG = "next" =>
        Range(next_classes) =
            {e \in StartsAfter(today) :
                \A f \in StartsAfter(today) : e[1].start_time <= f[1].start_time}

\* C4, what show_next does: the same with the weekday as the only test
C4_NextIsTheEarliestGroupOfTheWeekday ==
    pcG = "next" =>
        LET after == {e \in AllEntries :
                         /\ today.date % 7 = day_index(e[1].day)
                         /\ e[1].start_time > today.time}
        IN Range(next_classes) =
              {e \in after : \A f \in after : e[1].start_time <= f[1].start_time}

\* the activity of entry e meets bin i of TIMES
MeetsBin(e, i) == TIMES[i][1] < e[1].end_time /\ e[1].start_time < TIMES[i][2]

InsideGrid(e) ==
    /\ TIMES[1][1] <= e[1].start_time
    /\ e[1].start_time < e[1].end_time
    /\ e[1].end_time <= TIMES[Len(TIMES)][2]

\* C5 as claimed: render_day puts every activity inside the grid hours into
\* exactly the bins its time range [start, end) meets, also an activity that
\* does not start or end on the hour or lasts less than an hour.
C5_InEveryBinItMeets ==
    (pcG = "shown" /\ ~shown[1].raised) =>
        \A d \in DOMAIN shown[1].days :
            \A e \in Range(ctx_activities[shown[1].days[d].day]) :
                InsideGrid(e) =>
                    \A i \in DOMAIN TIMES :
                        (e \in Range(shown[1].days[d].binned[i])) <=> MeetsBin(e, i)

\* C5, what render_day does: the claim for activities that start and end on
\* the hour
C5_HourlyActivitiesInTheirBins ==
    (pcG = "shown" /\ ~shown[1].raised) =>
        \A d \in DOMAIN shown[1].days :
            \A e \in Range(ctx_activities[shown[1].days[d].day]) :
                (InsideGrid(e) /\ e[1].start_time % 60 = 0 /\ e[1].end_time % 60 = 0) =>
                    \A i \in DOMAIN TIMES :
                        (e \in Range(shown[1].days[d].binned[i])) <=> MeetsBin(e, i)

\* a rendered cell carries a clash mark: a line that is no activity's label
ClashMarked(cell) ==
    \E j \in DOMAIN cell : cell[j] \notin {activity_as_str(e) : e \in AllEntries}

\* two activities of different courses in one bin whose times overlap
ClashIn(bin) ==
    \E j, k \in DOMAIN bin :
        /\ bin[j][3].title /= bin[k][3].title
        /\ bin[j][1].start_time < bin[k][1].end_time
        /\ bin[k][1].start_time < bin[j][1].end_time

\* C6 as claimed: a cell whose bin holds two overlapping activities of
\* different courses is marked as a clash; a cell whose bin holds overlapping
\* activities of one course only is not.
C6_ClashesAreMarked ==
    (pcG = "shown" /\ ~shown[1].raised) =>
        \A d \in DOMAIN shown[1].days : \A i \in DOMAIN TIMES :
            ClashIn(shown[1].days[d].binned[i])
                <=> ClashMarked(shown[1].days[d].rendered[i])


\* the turns of the loop of cli that have been taken: the courses before
\* course_i and, when the loop has raised, the course it raised on
TurnsTaken ==
    {i \in DOMAIN cli_courses : i < course_i \/ (pcR = "raised" /\ i = course_i)}

\* C11: per-course failure isolation -- when fetching or parsing one course
\* fails, the run still loads, resolves and renders every other course: the
\* run never stops on the failure of one course with another course of the
\* dict not taken through the loop.
C11_FailureIsIsolated ==
    pcR = "raised" => \A i \in DOMAIN cli_courses : i /= course_i => i \in TurnsTaken

\* the activities data.json holds for a key: empty when there is no file, no
\* course of that key in it, or a course saved with no activities
CachedActivities(key) ==
    IF data_json = <<>> THEN <<>>
    ELSE LET hits == {i \in DOMAIN data_json[1] :
                         key_tuple(timetable_load_hook(data_json[1][i])) = key}
         IN IF hits = {} THEN <<>>
            ELSE timetable_load_hook(data_json[1][CHOOSE i \in hits : TRUE]).activities

C13_WriteFailureKeepsTheResult ==
    pcR = "write_raised" => pcG \in {"shown", "next"}


\* C14: grid layout never fails on an activity outside the grid hours -- an
\* activity that starts before 08:00 or ends after 17:00 is left out of the
\* bins outside the grid, render_day still returns one cell per bin, and
\* the other activities of the day are in their bins as without it.
C14_OutsideGridIsOmitted ==
    pcG = "shown" =>
        \A d \in DOMAIN shown[1].days :
            LET r == shown[1].days[d]
                inside == SelectSeq(ctx_activities[r.day], InsideGrid)
            IN /\ ~r.raised
               /\ Len(r.rendered) = Len(TIMES)
               /\ \A i \in DOMAIN TIMES :
                     SelectSeq(r.binned[i], InsideGrid)
                         = render_day(r.day, inside).binned[i]

\* C15: a next class for which no location is valid on the query date is
\* still reported, with an unknown location -- without --show-time, show_next
\* prints as many classes as the next-classes group holds.
C15_EveryNextClassIsPrinted ==
    (pcG = "next" /\ ~show_time) => Len(printed) = Len(next_classes)

====
